---- MODULE Spec2Model ----
(***************************************************************************)
(* Rental vs. Airbnb listings: the aggregation pipeline of                 *)
(* program_script.py (rental_count, airbnb_import, airbnb_count,           *)
(* assign_rental_price, fill_rental_price, airbnb_price, df_aggregate,     *)
(* add_ratios) as a state machine over its dataframes.                     *)
(*                                                                         *)
(* Dataframes are sequences of records (one record per row, in row order). *)
(* Floating-point values are exact rationals <<numerator, denominator>>    *)
(* in lowest terms with a positive denominator; <<0, 0>> is NaN.  Prices   *)
(* held in tables are whole numbers of half dollars (49.5 is 99).          *)
(***************************************************************************)
EXTENDS Integers, Sequences, FiniteSets, TLC

VARIABLES
  pc,                      \* the next call of main() to run
  rental_df,               \* output of dotstat_import(): one row per SA2
  city_sa2,                \* output of sa2_import(): the SA2 names, in file order
  airbnb_file,             \* the rows of the Airbnb csv, located in an SA2 or in none
  city_airbnb_df,          \* output of airbnb_import()
  city_rental_count,       \* output of rental_count()
  city_airbnb_count,       \* output of airbnb_count()
  incomplete_rental_price, \* output of assign_rental_price()
  city_rental_price,       \* output of fill_rental_price()
  city_airbnb_price,       \* output of airbnb_price()
  aggregate_df,            \* output of df_aggregate()
  city_agg_df,             \* output of add_ratios()
  row,                     \* assign_rental_price: the row of bucket counts at hand
  total_weight,            \* assign_rental_price: row.sum()
  median_position,         \* assign_rental_price: total_weight * 0.5
  i,                       \* assign_rental_price: loop index
  cumulative_sum,          \* assign_rental_price: running sum
  new_row                  \* assign_rental_price: the selected column index, or <<>>

vars == <<pc, rental_df, city_sa2, airbnb_file, city_airbnb_df, city_rental_count,
          city_airbnb_count, incomplete_rental_price, city_rental_price,
          city_airbnb_price, aggregate_df, city_agg_df, row, total_weight,
          median_position, i, cumulative_sum, new_row>>

pipeline_vars == <<rental_df, city_sa2, airbnb_file, city_airbnb_df, city_rental_count,
                   city_airbnb_count, incomplete_rental_price, city_rental_price,
                   city_airbnb_price, aggregate_df, city_agg_df>>

loop_vars == <<row, total_weight, median_position, i, cumulative_sum, new_row>>

(***************************************************************************)
(* Bounds of the model.                                                    *)
(***************************************************************************)
MaxCount == 2      \* largest household / listing count drawn for one cell
MaxListings == 2   \* most rows of the Airbnb csv

(***************************************************************************)
(* Program constants.                                                      *)
(***************************************************************************)
CATEGORIES == <<"1 bedroom", "2 bedrooms", "3 bedrooms", "4 bedrooms", "5 bedrooms",
                "6 bedrooms", "7 bedrooms", "8 or more bedrooms",
                "Total households stated - number of bedrooms">>
NA_REPLACEMENT == 0
NIGHTS_IN_WEEK == 7
BEDROOMS_ORDER == <<"1", "2", "3", "4", "5", "6", "7", "8 or more", "total">>

\* numpy.nan in a column of counts or of half dollars (both are never negative)
NaN == -1

(***************************************************************************)
(* Exact arithmetic on the values of float columns.                        *)
(***************************************************************************)
Abs(x) == IF x < 0 THEN -x ELSE x

RECURSIVE GCD(_, _)
GCD(a, b) == IF b = 0 THEN a ELSE GCD(b, a % b)

NaNQ == <<0, 0>>
Zero == <<0, 1>>
One == <<1, 1>>
MinusOne == <<-1, 1>>

Frac(n, d) ==
  IF d = 0 THEN NaNQ
  ELSE LET g == GCD(Abs(n), Abs(d))
           s == IF d < 0 THEN -1 ELSE 1
       IN  <<(s * n) \div g, (s * d) \div g>>

IsNaNQ(x) == x[2] = 0
Q(n) == IF n = NaN THEN NaNQ ELSE Frac(n, 1)          \* a whole number
HalfQ(n) == IF n = NaN THEN NaNQ ELSE Frac(n, 2)      \* a number of half dollars

\* comparisons with NaN are False
REq(x, y) == ~IsNaNQ(x) /\ ~IsNaNQ(y) /\ x = y
RGt(x, y) == ~IsNaNQ(x) /\ ~IsNaNQ(y) /\ x[1] * y[2] > y[1] * x[2]
RLt(x, y) == ~IsNaNQ(x) /\ ~IsNaNQ(y) /\ x[1] * y[2] < y[1] * x[2]

\* arithmetic with NaN is NaN; x / 0 is not a number
RAdd(x, y) == IF IsNaNQ(x) \/ IsNaNQ(y) THEN NaNQ
              ELSE Frac(x[1] * y[2] + y[1] * x[2], x[2] * y[2])
RMul(x, y) == IF IsNaNQ(x) \/ IsNaNQ(y) THEN NaNQ
              ELSE Frac(x[1] * y[1], x[2] * y[2])
RDiv(x, y) == IF IsNaNQ(x) \/ IsNaNQ(y) THEN NaNQ
              ELSE Frac(x[1] * y[2], x[2] * y[1])
RNeg(x) == IF IsNaNQ(x) THEN NaNQ ELSE <<-x[1], x[2]>>

(***************************************************************************)
(* Strings and row order.                                                  *)
(***************************************************************************)
\* every string the tables hold as a key, in ascending order of Python's str
\* comparison (by code point: digits < "A" < "B" < "T" < "Z" < "n" < "t")
LexOrder == <<"0", "1", "1 bedroom", "2", "2 bedrooms", "3", "3 bedrooms", "4",
              "4 bedrooms", "5", "5 bedrooms", "6", "6 bedrooms", "7", "7 bedrooms",
              "8 or more", "8 or more bedrooms", "A", "B",
              "Total households stated - number of bedrooms", "Z", "nan", "total">>

LexIndex ==
  [str \in {LexOrder[k] : k \in 1..Len(LexOrder)} |->
     CHOOSE k \in 1..Len(LexOrder) : LexOrder[k] = str]

LexRank(str) == LexIndex[str]

\* the order of sort_values(by = ["SA22018__1", "bedrooms"])
RowBefore(x, y) ==
  \/ LexRank(x.SA22018__1) < LexRank(y.SA22018__1)
  \/ /\ x.SA22018__1 = y.SA22018__1
     /\ LexRank(x.bedrooms) < LexRank(y.bedrooms)

RECURSIVE InsertRow(_, _)
InsertRow(r, sorted) ==
  IF sorted = <<>> THEN <<r>>
  ELSE IF ~RowBefore(Head(sorted), r) THEN <<r>> \o sorted
  ELSE <<Head(sorted)>> \o InsertRow(r, Tail(sorted))

\* a stable sort of the rows
RECURSIVE sort_values(_)
sort_values(df) ==
  IF df = <<>> THEN <<>> ELSE InsertRow(Head(df), sort_values(Tail(df)))

RECURSIVE Concat(_)
Concat(ss) == IF ss = <<>> THEN <<>> ELSE Head(ss) \o Concat(Tail(ss))

\* the values of a sequence without repeats, in order of first appearance
RECURSIVE unique(_)
unique(s) ==
  IF s = <<>> THEN <<>>
  ELSE LET front == unique(SubSeq(s, 1, Len(s) - 1))
           last == s[Len(s)]
       IN  IF \E k \in 1..Len(front) : front[k] = last THEN front
           ELSE Append(front, last)

\* [(sa2, bedroom) for sa2 in unique_sa2s for bedroom in unique_bedrooms]
all_combinations(unique_sa2s, unique_bedrooms) ==
  Concat([a \in 1..Len(unique_sa2s) |->
            [b \in 1..Len(unique_bedrooms) |->
               [SA22018__1 |-> unique_sa2s[a], bedrooms |-> unique_bedrooms[b]]]])

\* rental_df.index
RentalIndex(df) == [k \in 1..Len(df) |-> df[k].area]

(***************************************************************************)
(* add_ratios                                                              *)
(***************************************************************************)
\* the four assignments of the count block, a = Airbnb_count, b = rental_count
\* (variant: the divisor without its + 1)
ListingSideOverZero_mut(a, b) == RMul(a, RDiv(MinusOne, b))
ListingSideOverZero(a, b) == RMul(a, RDiv(MinusOne, RAdd(b, One)))

\* (variant: the sign of the listing side lost)
ListingSideOver_mut(a, b) == RMul(a, RDiv(One, b))
ListingSideOver(a, b) == RMul(a, RDiv(MinusOne, b))

RentalSideOverZero(a, b) == RMul(b, RDiv(One, RAdd(a, One)))

\* (variant: the + 1 applied to a nonzero divisor as well)
RentalSideOver_mut(a, b) == RMul(b, RDiv(One, RAdd(a, One)))
RentalSideOver(a, b) == RMul(b, RDiv(One, a))

\* if/elif/else block on (Airbnb_count, rental_count)
count_ratio(r) ==
  LET a == Q(r.Airbnb_count)
      b == Q(r.rental_count)
  IN  IF REq(a, b) THEN Zero
      ELSE IF RGt(a, b)
           THEN IF REq(b, Zero) THEN ListingSideOverZero(a, b)
                                ELSE ListingSideOver(a, b)
           ELSE IF REq(a, Zero) THEN RentalSideOverZero(a, b)
                                ELSE RentalSideOver(a, b)

\* (variant: the price block reading rental_price_basic)
price_ratio_mut(r) ==
  LET a == HalfQ(r.Airbnb_price)
      b == Q(r.rental_price_basic)
  IN  IF REq(a, b) THEN Zero
      ELSE IF RGt(a, b)
           THEN IF REq(b, Zero)
                THEN RMul(a, RDiv(MinusOne, RAdd(b, One)))
                ELSE RMul(a, RDiv(MinusOne, b))
           ELSE IF REq(a, Zero)
                THEN RMul(b, RDiv(One, RAdd(a, One)))
                ELSE RMul(b, RDiv(One, a))

\* if/elif/else block on (Airbnb_price, rental_price_average)
price_ratio(r) ==
  LET a == HalfQ(r.Airbnb_price)
      b == HalfQ(r.rental_price_average)
  IN  IF REq(a, b) THEN Zero
      ELSE IF RGt(a, b)
           THEN IF REq(b, Zero)
                THEN RMul(a, RDiv(MinusOne, RAdd(b, One)))
                ELSE RMul(a, RDiv(MinusOne, b))
           ELSE IF REq(a, Zero)
                THEN RMul(b, RDiv(One, RAdd(a, One)))
                ELSE RMul(b, RDiv(One, a))

\* the loop body: one row of aggregate_df with its two ratio columns set
WithRatios(r) ==
  [SA2 |-> r.SA2, Bedrooms |-> r.Bedrooms,
   rental_count |-> r.rental_count, Airbnb_count |-> r.Airbnb_count,
   rental_price |-> r.rental_price, rental_price_basic |-> r.rental_price_basic,
   rental_price_average |-> r.rental_price_average, Airbnb_price |-> r.Airbnb_price,
   count_ratio |-> count_ratio(r), price_ratio |-> price_ratio(r)]

\* city_sa2.merge(aggregate_df, left_on = SA22018__1, right_on = SA2): an inner
\* join in the order of the left keys; the geometry column is the SA2's own
MergeGeometry(sa2s, df) ==
  Concat([k \in 1..Len(sa2s) |->
            LET Owned(r) == r.SA2 = sa2s[k]
                mine == SelectSeq(df, Owned)
            IN  [j \in 1..Len(mine) |->
                   [SA2 |-> mine[j].SA2, Bedrooms |-> mine[j].Bedrooms,
                    rental_count |-> mine[j].rental_count,
                    Airbnb_count |-> mine[j].Airbnb_count,
                    rental_price |-> mine[j].rental_price,
                    rental_price_basic |-> mine[j].rental_price_basic,
                    rental_price_average |-> mine[j].rental_price_average,
                    Airbnb_price |-> mine[j].Airbnb_price,
                    count_ratio |-> mine[j].count_ratio,
                    price_ratio |-> mine[j].price_ratio,
                    geometry |-> sa2s[k]]]])

add_ratios ==
  /\ pc = "add_ratios"
  /\ city_agg_df' = MergeGeometry(city_sa2,
                      [k \in 1..Len(aggregate_df) |-> WithRatios(aggregate_df[k])])
  /\ pc' = "maps"
  /\ UNCHANGED <<rental_df, city_sa2, airbnb_file, city_airbnb_df, city_rental_count,
                 city_airbnb_count, incomplete_rental_price, city_rental_price,
                 city_airbnb_price, aggregate_df>>
  /\ UNCHANGED loop_vars

(***************************************************************************)
(* The ratio calculator on one row: the inputs are drawn from bounded sets. *)
(***************************************************************************)
\* price_average values of fill_rental_price and weekly medians, in half dollars
PriceValues == {0, 1, 14, 21, 99, 249, 1099, 1600}

InitRatio ==
  /\ pc = "add_ratios"
  /\ city_sa2 = <<"A">>
  /\ \E ac \in 0..MaxCount, rc \in 0..MaxCount, ap \in PriceValues, rp \in PriceValues :
       aggregate_df = <<[SA2 |-> "A", Bedrooms |-> "1", rental_count |-> rc,
                         Airbnb_count |-> ac, rental_price |-> "0",
                         rental_price_basic |-> 0, rental_price_average |-> rp,
                         Airbnb_price |-> ap]>>
  /\ rental_df = <<>> /\ airbnb_file = <<>> /\ city_airbnb_df = <<>>
  /\ city_rental_count = <<>> /\ city_airbnb_count = <<>>
  /\ incomplete_rental_price = <<>> /\ city_rental_price = <<>>
  /\ city_airbnb_price = <<>> /\ city_agg_df = <<>>
  /\ row = <<>> /\ total_weight = 0 /\ median_position = Zero /\ i = 0
  /\ cumulative_sum = 0 /\ new_row = <<>>

NextRatio == add_ratios

SpecRatio == InitRatio /\ [][NextRatio]_vars

(***************************************************************************)
(* assign_rental_price: the weighted median of one row of bucket counts.   *)
(* row is the sequence of the counts of the price columns of one bedroom   *)
(* category, row[i] of the code being row[i + 1] here.                     *)
(***************************************************************************)
BUCKETS_PER_CATEGORY == 8     \* min_col, max_col step: the "$" columns of a category

RECURSIVE RowSum(_)
RowSum(r) == IF r = <<>> THEN 0 ELSE Head(r) + RowSum(Tail(r))

\* median_position = total_weight * 0.5 (variant: the half rounded up past the total)
MedianPosition_mut(total) == RAdd(RMul(Q(total), <<1, 2>>), <<1, 2>>)
MedianPosition(total) == RMul(Q(total), <<1, 2>>)

\* while cumulative_sum < median_position (variant: <=)
LoopCondition_mut(cs, mp) == ~RGt(Q(cs), mp)
LoopCondition(cs, mp) == RLt(Q(cs), mp)

\* the loop run to its end from (idx, cs): i and cumulative_sum at the exit;
\* raised when row[i] is read past the last column (IndexError)
RECURSIVE WhileLoop(_, _, _, _)
WhileLoop(r, idx, cs, mp) ==
  IF LoopCondition(cs, mp)
  THEN IF idx < Len(r) THEN WhileLoop(r, idx + 1, cs + r[idx + 1], mp)
                       ELSE [i |-> idx, cumulative_sum |-> cs, raised |-> TRUE]
  ELSE [i |-> idx, cumulative_sum |-> cs, raised |-> FALSE]

\* lines 168-178 on one row: the column position i - 1 of the row added to
\* rental_price_df, <<>> when no row is added
SelectedColumn(r) ==
  LET out == WhileLoop(r, 0, 0, MedianPosition(RowSum(r)))
  IN  IF out.cumulative_sum # 0 THEN <<out.i - 1>> ELSE <<>>

RowRaises(r) == WhileLoop(r, 0, 0, MedianPosition(RowSum(r))).raised

\* lines 168-171
loop_enter ==
  /\ pc = "row"
  /\ total_weight' = RowSum(row)
  /\ median_position' = MedianPosition(RowSum(row))
  /\ i' = 0
  /\ cumulative_sum' = 0
  /\ pc' = "while"
  /\ UNCHANGED <<row, new_row>>
  /\ UNCHANGED pipeline_vars

\* lines 172-174: one iteration
loop_body ==
  /\ pc = "while"
  /\ LoopCondition(cumulative_sum, median_position)
  /\ IF i < Len(row)
     THEN /\ cumulative_sum' = cumulative_sum + row[i + 1]
          /\ i' = i + 1
          /\ pc' = "while"
     ELSE /\ pc' = "IndexError"
          /\ UNCHANGED <<i, cumulative_sum>>
  /\ UNCHANGED <<row, total_weight, median_position, new_row>>
  /\ UNCHANGED pipeline_vars

\* lines 175-189: the loop is left and the row is added, or not
loop_exit ==
  /\ pc = "while"
  /\ ~LoopCondition(cumulative_sum, median_position)
  /\ new_row' = IF cumulative_sum # 0 THEN <<i - 1>> ELSE <<>>
  /\ pc' = "next_row"
  /\ UNCHANGED <<row, total_weight, median_position, i, cumulative_sum>>
  /\ UNCHANGED pipeline_vars

InitSelect ==
  /\ pc = "row"
  /\ row \in [1..BUCKETS_PER_CATEGORY -> 0..MaxCount]
  /\ total_weight = 0 /\ median_position = Zero /\ i = 0
  /\ cumulative_sum = 0 /\ new_row = <<>>
  /\ city_sa2 = <<>> /\ aggregate_df = <<>>
  /\ rental_df = <<>> /\ airbnb_file = <<>> /\ city_airbnb_df = <<>>
  /\ city_rental_count = <<>> /\ city_airbnb_count = <<>>
  /\ incomplete_rental_price = <<>> /\ city_rental_price = <<>>
  /\ city_airbnb_price = <<>> /\ city_agg_df = <<>>

NextSelect == loop_enter \/ loop_body \/ loop_exit

SpecSelect == InitSelect /\ [][NextSelect]_vars

(***************************************************************************)
(* rental_count                                                            *)
(***************************************************************************)
\* .str.replace(" bedrooms*: Total households stated", "", regex = True) on a
\* column name "<category>: Total households stated" (and " bedrooms*: \S.*$" on
\* "<category>: <price band>"): the category without its " bedroom(s)"
StripBedrooms(category) ==
  CASE category = "1 bedroom" -> "1"
    [] category = "2 bedrooms" -> "2"
    [] category = "3 bedrooms" -> "3"
    [] category = "4 bedrooms" -> "4"
    [] category = "5 bedrooms" -> "5"
    [] category = "6 bedrooms" -> "6"
    [] category = "7 bedrooms" -> "7"
    [] category = "8 or more bedrooms" -> "8 or more"
    [] category = "Total households stated - number of bedrooms"
         -> "Total households stated - number of"

\* .str.replace("Total households stated - number of", "total")
ReplaceTotal(str) ==
  IF str = "Total households stated - number of" THEN "total" ELSE str

\* filter(like = ": Total households stated").reset_index().melt(...): column by
\* column, the rows of rental_df in their order; bedrooms holds the column name,
\* written here without its common end ": Total households stated"
MeltStated(df) ==
  Concat([c \in 1..Len(CATEGORIES) |->
            [k \in 1..Len(df) |->
               [SA22018__1 |-> df[k].area, bedrooms |-> CATEGORIES[c],
                count |-> df[k].stated[c]]]])

rental_count_of(df) ==
  LET sorted == sort_values(MeltStated(df))
  IN  [k \in 1..Len(sorted) |->
         [SA22018__1 |-> sorted[k].SA22018__1,
          bedrooms |-> ReplaceTotal(StripBedrooms(sorted[k].bedrooms)),
          count |-> sorted[k].count]]

rental_count ==
  /\ pc = "rental_count"
  /\ city_rental_count' = rental_count_of(rental_df)
  /\ pc' = "airbnb_count"
  /\ UNCHANGED <<rental_df, city_sa2, airbnb_file, city_airbnb_df, city_airbnb_count,
                 incomplete_rental_price, city_rental_price, city_airbnb_price,
                 aggregate_df, city_agg_df>>
  /\ UNCHANGED loop_vars

(***************************************************************************)
(* airbnb_import                                                           *)
(* A row of airbnb_file: room_type, bedrooms (a whole number or NaN), price *)
(* (the nightly rate in whole dollars) and location, the SA2 whose polygon *)
(* contains the point of the row ("outside" when none does).               *)
(***************************************************************************)
\* fillna(value = {"bedrooms": 1})
FillBedrooms(b) == IF b = NaN THEN 1 ELSE b

\* str(float) with ".0" removed, for the numbers the column can still hold
NumberString(b) ==
  CASE b = 0 -> "0" [] b = 1 -> "1" [] b = 2 -> "2" [] b = 3 -> "3"
    [] b = 4 -> "4" [] b = 5 -> "5" [] b = 6 -> "6" [] b = 7 -> "7"

\* lines 106-108 on one value of the joined bedrooms column (variant: >= 7)
BedroomCategory_mut(b) ==
  IF b = NaN THEN "nan"
  ELSE IF b >= 7 THEN "8 or more"
  ELSE NumberString(b)
BedroomCategory(b) ==
  IF b = NaN THEN "nan"
  ELSE IF b > 7 THEN "8 or more"
  ELSE NumberString(b)

\* lines 101-103: the weekly price in half dollars
WeeklyPrice(p) == IF p = NaN THEN NaN ELSE (2 * p) * NIGHTS_IN_WEEK

\* the rows of the csv an SA2 contains, by index, after the room_type filter
Contained(sa2, file) ==
  LET Inside(k) == /\ file[k].room_type = "Entire home/apt"
                   /\ file[k].location = sa2
  IN  SelectSeq([k \in 1..Len(file) |-> k], Inside)

\* city_sa2.sjoin(dataframe, how = "left", predicate = "contains"): every SA2
\* keeps a row; one without a listing gets NaN in the columns of the right side
sjoin(sa2s, file) ==
  Concat([a \in 1..Len(sa2s) |->
            LET hits == Contained(sa2s[a], file)
            IN  IF hits = <<>>
                THEN <<[SA22018__1 |-> sa2s[a], index_right |-> NaN,
                        bedrooms |-> NaN, price |-> NaN]>>
                ELSE [j \in 1..Len(hits) |->
                        [SA22018__1 |-> sa2s[a], index_right |-> hits[j],
                         bedrooms |-> FillBedrooms(file[hits[j]].bedrooms),
                         price |-> file[hits[j]].price]]])

airbnb_import_of(file, sa2s) ==
  LET joined == sjoin(sa2s, file)
  IN  [k \in 1..Len(joined) |->
         [SA22018__1 |-> joined[k].SA22018__1,
          index_right |-> joined[k].index_right,
          bedrooms |-> BedroomCategory(joined[k].bedrooms),
          price |-> WeeklyPrice(joined[k].price)]]

airbnb_import ==
  /\ pc = "airbnb_import"
  /\ city_airbnb_df' = airbnb_import_of(airbnb_file, city_sa2)
  /\ pc' = "rental_count"
  /\ UNCHANGED <<rental_df, city_sa2, airbnb_file, city_rental_count, city_airbnb_count,
                 incomplete_rental_price, city_rental_price, city_airbnb_price,
                 aggregate_df, city_agg_df>>
  /\ UNCHANGED loop_vars

(***************************************************************************)
(* airbnb_count                                                            *)
(***************************************************************************)
\* the distinct keys of groupby([...]) in sorted order
GroupKeys(df) ==
  unique(sort_values([k \in 1..Len(df) |->
           [SA22018__1 |-> df[k].SA22018__1, bedrooms |-> df[k].bedrooms]]))

\* the distinct SA2s of groupby("SA22018__1") in sorted order
GroupSa2s(df) ==
  LET keys == unique(sort_values([k \in 1..Len(df) |->
                       [SA22018__1 |-> df[k].SA22018__1, bedrooms |-> "0"]]))
  IN  [k \in 1..Len(keys) |-> keys[k].SA22018__1]

RECURSIVE SumSize(_)
SumSize(df) == IF df = <<>> THEN 0 ELSE Head(df).size + SumSize(Tail(df))

\* groupby(["SA22018__1", "bedrooms"], as_index = False).size()
GroupSize(df) ==
  LET keys == GroupKeys(df)
  IN  [g \in 1..Len(keys) |->
         LET InGroup(r) == /\ r.SA22018__1 = keys[g].SA22018__1
                           /\ r.bedrooms = keys[g].bedrooms
         IN  [SA22018__1 |-> keys[g].SA22018__1, bedrooms |-> keys[g].bedrooms,
              size |-> Len(SelectSeq(df, InGroup))]]

\* groupby("SA22018__1", as_index = False).sum("size") with bedrooms = "total"
total_counts_of(count_df) ==
  LET sa2s == GroupSa2s(count_df)
  IN  [g \in 1..Len(sa2s) |->
         LET InGroup(r) == r.SA22018__1 = sa2s[g]
         IN  [SA22018__1 |-> sa2s[g], bedrooms |-> "total",
              size |-> SumSize(SelectSeq(count_df, InGroup))]]

\* pd.merge(left, right, on = ["SA22018__1", "bedrooms"], how = "right")
\* .fillna(NA_REPLACEMENT) for a left table with the one value column size
MergeRightSize(left, right) ==
  Concat([k \in 1..Len(right) |->
            LET Same(r) == /\ r.SA22018__1 = right[k].SA22018__1
                           /\ r.bedrooms = right[k].bedrooms
                found == SelectSeq(left, Same)
            IN  IF found = <<>>
                THEN <<[SA22018__1 |-> right[k].SA22018__1,
                        bedrooms |-> right[k].bedrooms, size |-> NA_REPLACEMENT]>>
                ELSE found])

airbnb_count_of(airbnb_df, df) ==
  LET sizes == GroupSize(airbnb_df)
      both == sizes \o total_counts_of(sizes)
      unique_sa2s == unique(RentalIndex(df))
  IN  sort_values(MergeRightSize(both, all_combinations(unique_sa2s, BEDROOMS_ORDER)))

airbnb_count ==
  /\ pc = "airbnb_count"
  /\ city_airbnb_count' = airbnb_count_of(city_airbnb_df, rental_df)
  /\ pc' = "assign_rental_price"
  /\ UNCHANGED <<rental_df, city_sa2, airbnb_file, city_airbnb_df, city_rental_count,
                 incomplete_rental_price, city_rental_price, city_airbnb_price,
                 aggregate_df, city_agg_df>>
  /\ UNCHANGED loop_vars

(***************************************************************************)
(* assign_rental_price on the whole table                                  *)
(***************************************************************************)
\* the price bands of the "$" columns of one category, in column order
PRICE_BANDS == <<"Under $100", "$100 - $149", "$150 - $199", "$200 - $299",
                 "$300 - $399", "$400 - $499", "$500  - $599", "$600 and over">>

\* .str.replace("^.*?(?=\$)", "", regex = True) on "<category>: <band>"
StripToDollar(band) == IF band = "Under $100" THEN "$100" ELSE band

\* .str.replace("^\$100$", "Under $100", regex = True)
RestoreUnder(str) == IF str = "$100" THEN "Under $100" ELSE str

\* the rows added for the block of columns of category c
BlockRows(df, c) ==
  Concat([k \in 1..Len(df) |->
            LET col == SelectedColumn(df[k].counts[c])
            IN  IF col = <<>> THEN <<>>
                ELSE <<[SA22018__1 |-> df[k].area,
                        bedrooms |-> ReplaceTotal(StripBedrooms(CATEGORIES[c])),
                        price_str |-> RestoreUnder(StripToDollar(
                                        PRICE_BANDS[col[1] + 1]))]>>])

assign_rental_price_of(df) == Concat([c \in 1..Len(CATEGORIES) |-> BlockRows(df, c)])

AnyRowRaises(df) ==
  \E k \in 1..Len(df) : \E c \in 1..Len(CATEGORIES) : RowRaises(df[k].counts[c])

assign_rental_price ==
  /\ pc = "assign_rental_price"
  /\ IF AnyRowRaises(rental_df)
     THEN /\ pc' = "IndexError"
          /\ UNCHANGED incomplete_rental_price
     ELSE /\ incomplete_rental_price' = assign_rental_price_of(rental_df)
          /\ pc' = "fill_rental_price"
  /\ UNCHANGED <<rental_df, city_sa2, airbnb_file, city_airbnb_df, city_rental_count,
                 city_airbnb_count, city_rental_price, city_airbnb_price,
                 aggregate_df, city_agg_df>>
  /\ UNCHANGED loop_vars

(***************************************************************************)
(* fill_rental_price                                                       *)
(***************************************************************************)
\* basic_price_dict, in halves
basic_price_dict(str) ==
  CASE str = "0" -> 0 [] str = "Under $100" -> 2 [] str = "$100 - $149" -> 3
    [] str = "$150 - $199" -> 4 [] str = "$200 - $299" -> 6
    [] str = "$300 - $399" -> 8 [] str = "$400 - $499" -> 10
    [] str = "$500  - $599" -> 12 [] str = "$600 and over" -> 14

\* average_price_dict, in half dollars
average_price_dict(str) ==
  CASE str = "0" -> 0 [] str = "Under $100" -> 99 [] str = "$100 - $149" -> 249
    [] str = "$150 - $199" -> 349 [] str = "$200 - $299" -> 499
    [] str = "$300 - $399" -> 699 [] str = "$400 - $499" -> 899
    [] str = "$500  - $599" -> 1099 [] str = "$600 and over" -> 1600

\* incomplete_rental_price["bedrooms"].unique()
unique_bedrooms(incomplete) ==
  unique([k \in 1..Len(incomplete) |-> incomplete[k].bedrooms])

\* pd.merge(incomplete_rental_price, all_combinations, how = "right").fillna("0")
MergeRightLabel(left, right) ==
  Concat([k \in 1..Len(right) |->
            LET Same(r) == /\ r.SA22018__1 = right[k].SA22018__1
                           /\ r.bedrooms = right[k].bedrooms
                found == SelectSeq(left, Same)
            IN  IF found = <<>>
                THEN <<[SA22018__1 |-> right[k].SA22018__1,
                        bedrooms |-> right[k].bedrooms, price_str |-> "0"]>>
                ELSE found])

fill_rental_price_of(df, incomplete) ==
  LET unique_sa2s == unique(RentalIndex(df))
      merged == sort_values(MergeRightLabel(incomplete,
                  all_combinations(unique_sa2s, unique_bedrooms(incomplete))))
  IN  [k \in 1..Len(merged) |->
         [SA22018__1 |-> merged[k].SA22018__1, bedrooms |-> merged[k].bedrooms,
          price_str |-> merged[k].price_str,
          price_basic |-> basic_price_dict(merged[k].price_str),
          price_average |-> average_price_dict(merged[k].price_str)]]

\* an empty pd.DataFrame({}) has no column "bedrooms": line 200 raises KeyError
fill_rental_price ==
  /\ pc = "fill_rental_price"
  /\ IF incomplete_rental_price = <<>>
     THEN /\ pc' = "KeyError"
          /\ UNCHANGED city_rental_price
     ELSE /\ city_rental_price' = fill_rental_price_of(rental_df, incomplete_rental_price)
          /\ pc' = "airbnb_price"
  /\ UNCHANGED <<rental_df, city_sa2, airbnb_file, city_airbnb_df, city_rental_count,
                 city_airbnb_count, incomplete_rental_price, city_airbnb_price,
                 aggregate_df, city_agg_df>>
  /\ UNCHANGED loop_vars

(***************************************************************************)
(* airbnb_price                                                            *)
(***************************************************************************)
RECURSIVE InsertNumber(_, _)
InsertNumber(x, sorted) ==
  IF sorted = <<>> THEN <<x>>
  ELSE IF x <= Head(sorted) THEN <<x>> \o sorted
  ELSE <<Head(sorted)>> \o InsertNumber(x, Tail(sorted))

RECURSIVE SortNumbers(_)
SortNumbers(xs) ==
  IF xs = <<>> THEN <<>> ELSE InsertNumber(Head(xs), SortNumbers(Tail(xs)))

\* the median of the price column of some rows: NaN is skipped, no value gives NaN
MedianPrice(rows) ==
  LET IsNumber(r) == r.price # NaN
      kept == SelectSeq(rows, IsNumber)
      xs == SortNumbers([k \in 1..Len(kept) |-> kept[k].price])
      n == Len(xs)
  IN  IF n = 0 THEN NaN
      ELSE IF n % 2 = 1 THEN xs[(n + 1) \div 2]
      ELSE (xs[n \div 2] + xs[n \div 2 + 1]) \div 2

\* groupby(["SA22018__1", "bedrooms"], as_index = False).median("price")
GroupMedian(df) ==
  LET keys == GroupKeys(df)
  IN  [g \in 1..Len(keys) |->
         LET InGroup(r) == /\ r.SA22018__1 = keys[g].SA22018__1
                           /\ r.bedrooms = keys[g].bedrooms
         IN  [SA22018__1 |-> keys[g].SA22018__1, bedrooms |-> keys[g].bedrooms,
              price |-> MedianPrice(SelectSeq(df, InGroup))]]

\* groupby("SA22018__1", as_index = False).median("price") with bedrooms = "total"
total_median_of(df) ==
  LET sa2s == GroupSa2s(df)
  IN  [g \in 1..Len(sa2s) |->
         LET InGroup(r) == r.SA22018__1 = sa2s[g]
         IN  [SA22018__1 |-> sa2s[g], bedrooms |-> "total",
              price |-> MedianPrice(SelectSeq(df, InGroup))]]

\* pd.merge(..., how = "right").fillna(NA_REPLACEMENT) for the value column price
MergeRightPrice(left, right) ==
  Concat([k \in 1..Len(right) |->
            LET Same(r) == /\ r.SA22018__1 = right[k].SA22018__1
                           /\ r.bedrooms = right[k].bedrooms
                found == SelectSeq(left, Same)
            IN  IF found = <<>>
                THEN <<[SA22018__1 |-> right[k].SA22018__1,
                        bedrooms |-> right[k].bedrooms, price |-> NA_REPLACEMENT]>>
                ELSE [j \in 1..Len(found) |->
                        [SA22018__1 |-> found[j].SA22018__1,
                         bedrooms |-> found[j].bedrooms,
                         price |-> IF found[j].price = NaN THEN NA_REPLACEMENT
                                   ELSE found[j].price]]])

airbnb_price_of(airbnb_df, df) ==
  LET both == GroupMedian(airbnb_df) \o total_median_of(airbnb_df)
      unique_sa2s == unique(RentalIndex(df))
  IN  sort_values(MergeRightPrice(both, all_combinations(unique_sa2s, BEDROOMS_ORDER)))

airbnb_price ==
  /\ pc = "airbnb_price"
  /\ city_airbnb_price' = airbnb_price_of(city_airbnb_df, rental_df)
  /\ pc' = "df_aggregate"
  /\ UNCHANGED <<rental_df, city_sa2, airbnb_file, city_airbnb_df, city_rental_count,
                 city_airbnb_count, incomplete_rental_price, city_rental_price,
                 aggregate_df, city_agg_df>>
  /\ UNCHANGED loop_vars

(***************************************************************************)
(* df_aggregate                                                            *)
(***************************************************************************)
\* DataFrame.join on the index: after reset_index(drop = True) the index of
\* every table is the row position, so row k takes the values of row k of the
\* other table, and NaN where the other table has no row k
df_aggregate_of(rental_count_df, airbnb_count_df, rental_price_df, airbnb_price_df) ==
  [k \in 1..Len(rental_count_df) |->
     [SA2 |-> rental_count_df[k].SA22018__1,
      Bedrooms |-> rental_count_df[k].bedrooms,
      rental_count |-> rental_count_df[k].count,
      Airbnb_count |-> IF k <= Len(airbnb_count_df) THEN airbnb_count_df[k].size
                       ELSE NaN,
      rental_price |-> IF k <= Len(rental_price_df) THEN rental_price_df[k].price_str
                       ELSE "NaN",
      rental_price_basic |-> IF k <= Len(rental_price_df)
                             THEN rental_price_df[k].price_basic ELSE NaN,
      rental_price_average |-> IF k <= Len(rental_price_df)
                               THEN rental_price_df[k].price_average ELSE NaN,
      Airbnb_price |-> IF k <= Len(airbnb_price_df) THEN airbnb_price_df[k].price
                       ELSE NaN]]

df_aggregate ==
  /\ pc = "df_aggregate"
  /\ aggregate_df' = df_aggregate_of(city_rental_count, city_airbnb_count,
                                     city_rental_price, city_airbnb_price)
  /\ pc' = "add_ratios"
  /\ UNCHANGED <<rental_df, city_sa2, airbnb_file, city_airbnb_df, city_rental_count,
                 city_airbnb_count, incomplete_rental_price, city_rental_price,
                 city_airbnb_price, city_agg_df>>
  /\ UNCHANGED loop_vars

(***************************************************************************)
(* main(): the pipeline on the tables of one city.                         *)
(***************************************************************************)
\* bucket counts of one (SA2, category): no household, all in the first band,
\* and two bands with the first of them holding exactly half of the weight
NoHousehold == [b \in 1..BUCKETS_PER_CATEGORY |-> 0]
BucketRows ==
  {[b \in 1..BUCKETS_PER_CATEGORY |-> IF b = 1 THEN MaxCount ELSE 0],
   [b \in 1..BUCKETS_PER_CATEGORY |-> IF b \in {3, 8} THEN 1 ELSE 0]}

\* the categories (positions in CATEGORIES) with households in one SA2
ObservedSets ==
  {{}, {1, Len(CATEGORIES)}, {2, 8, Len(CATEGORIES)}, (1..Len(CATEGORIES)) \ {7},
   1..Len(CATEGORIES)}

\* a row of rental_df: the eight "$" columns of every category, and the column
\* "Total households stated" of every category, their sum
RentalRow(area, observed, buckets) ==
  [area |-> area,
   counts |-> [c \in 1..Len(CATEGORIES) |->
                 IF c \in observed THEN buckets ELSE NoHousehold],
   stated |-> [c \in 1..Len(CATEGORIES) |->
                 IF c \in observed THEN RowSum(buckets) ELSE 0]]

RentalRows(area) ==
  {RentalRow(area, observed, buckets) : observed \in ObservedSets, buckets \in BucketRows}

RentalTables ==
  {<<ra, rb>> : ra \in RentalRows("A"), rb \in RentalRows("B")}
  \cup {<<rb, ra>> : ra \in RentalRows("A"), rb \in RentalRows("B")}

\* the table the csv files are run against: households in every category of
\* both SA2s, the index not in sorted order
ReferenceTable ==
  <<RentalRow("B", 1..Len(CATEGORIES),
              [b \in 1..BUCKETS_PER_CATEGORY |-> IF b = 1 THEN MaxCount ELSE 0]),
    RentalRow("A", 1..Len(CATEGORIES),
              [b \in 1..BUCKETS_PER_CATEGORY |-> IF b \in {3, 8} THEN 1 ELSE 0])>>

\* the SA2s of the city: "Z" has no row in the rental table
CitySa2s == {<<"A", "B", "Z">>, <<"B", "Z", "A">>}

BedroomValues == {NaN, 0, 3, 7, 8}
NightlyPrices == {78, 79}

\* the rows a csv can hold; a row that is dropped by the room_type filter, lies
\* outside every SA2 or lies in "Z" stands for all rows of its kind
Listings ==
  {[room_type |-> "Entire home/apt", location |-> l, bedrooms |-> b, price |-> p] :
     l \in {"A", "B"}, b \in BedroomValues, p \in NightlyPrices}
  \cup {[room_type |-> "Entire home/apt", location |-> l, bedrooms |-> 12, price |-> 78] :
          l \in {"Z", "outside"}}
  \cup {[room_type |-> "Private room", location |-> "A", bedrooms |-> 2, price |-> 78]}

ListingFiles == UNION {[1..n -> Listings] : n \in 0..MaxListings}

\* every csv of up to MaxListings rows against the reference table, and every
\* rental table and order of the SA2s against every csv of at most one row
Init ==
  /\ pc = "airbnb_import"
  /\ airbnb_file \in ListingFiles
  /\ rental_df \in RentalTables
  /\ city_sa2 \in CitySa2s
  /\ \/ Len(airbnb_file) <= 1
     \/ rental_df = ReferenceTable /\ city_sa2 = <<"B", "Z", "A">>
  /\ city_airbnb_df = <<>> /\ city_rental_count = <<>> /\ city_airbnb_count = <<>>
  /\ incomplete_rental_price = <<>> /\ city_rental_price = <<>>
  /\ city_airbnb_price = <<>> /\ aggregate_df = <<>> /\ city_agg_df = <<>>
  /\ row = <<>> /\ total_weight = 0 /\ median_position = Zero /\ i = 0
  /\ cumulative_sum = 0 /\ new_row = <<>>

Next ==
  \/ airbnb_import
  \/ rental_count
  \/ airbnb_count
  \/ assign_rental_price
  \/ fill_rental_price
  \/ airbnb_price
  \/ df_aggregate
  \/ add_ratios

Spec == Init /\ [][Next]_vars

(***************************************************************************)
(* Claims on the ratio calculator (specification SpecRatio).               *)
(***************************************************************************)
RatioRows == IF pc = "maps" THEN {city_agg_df[k] : k \in 1..Len(city_agg_df)} ELSE {}

\* the policy of the ratio calculator on two numbers a, b (neither is NaN),
\* each case worked out as one fraction
PolicyRatio(a, b) ==
  CASE a = b -> <<0, 1>>
    [] RGt(a, b) /\ b[1] = 0 -> Frac(-(a[1] * b[2]), a[2] * (b[1] + b[2]))
    [] RGt(a, b) /\ b[1] # 0 -> Frac(-(a[1] * b[2]), a[2] * b[1])
    [] RLt(a, b) /\ a[1] = 0 -> Frac(b[1] * a[2], b[2] * (a[1] + a[2]))
    [] RLt(a, b) /\ a[1] # 0 -> Frac(b[1] * a[2], b[2] * a[1])

\* C2: in every row add_ratios returns, count_ratio is the piecewise policy on
\* (Airbnb_count, rental_count) and price_ratio is the same policy on
\* (Airbnb_price, rental_price_average).
C2_RatiosFollowPolicy ==
  \A r \in RatioRows :
    /\ r.count_ratio = PolicyRatio(Q(r.Airbnb_count), Q(r.rental_count))
    /\ r.price_ratio = PolicyRatio(HalfQ(r.Airbnb_price), HalfQ(r.rental_price_average))

C2_Witness ==
  \E r \in RatioRows :
    /\ r.Airbnb_count > 0 /\ r.rental_count = 0
    /\ 0 < r.Airbnb_price /\ r.Airbnb_price < r.rental_price_average
    /\ r.count_ratio = <<-r.Airbnb_count, 1>>
    /\ r.price_ratio[1] > 0

\* the row with the listing side and the rental side exchanged
Exchanged(r) ==
  [r EXCEPT !.Airbnb_count = r.rental_count, !.rental_count = r.Airbnb_count,
            !.Airbnb_price = r.rental_price_average,
            !.rental_price_average = r.Airbnb_price]

\* C3: for a # 0, b # 0 and a # b the ratio is exactly antisymmetric,
\* ratio(a, b) = -ratio(b, a), for the count pair and for the price pair.
C3_RatioAntisymmetric ==
  \A r \in RatioRows :
    /\ (r.Airbnb_count # 0 /\ r.rental_count # 0 /\ r.Airbnb_count # r.rental_count)
         => r.count_ratio = RNeg(count_ratio(Exchanged(r)))
    /\ (r.Airbnb_price # 0 /\ r.rental_price_average # 0
          /\ r.Airbnb_price # r.rental_price_average)
         => r.price_ratio = RNeg(price_ratio(Exchanged(r)))

C3_Witness ==
  \E r \in RatioRows :
    /\ 0 < r.Airbnb_count /\ r.Airbnb_count < r.rental_count
    /\ 0 < r.rental_price_average /\ r.rental_price_average < r.Airbnb_price
    /\ r.count_ratio[1] > 0 /\ r.price_ratio[1] < 0

\* C4: the ratio is always a finite number (no division by zero):
\* ratio(0, 0) = 0, ratio(a, 0) = -a for a > 0 and ratio(0, b) = b for b > 0,
\* for the count pair and for the price pair.
C4_RatioZeroSafe ==
  \A r \in RatioRows :
    /\ ~IsNaNQ(r.count_ratio) /\ ~IsNaNQ(r.price_ratio)
    /\ (r.Airbnb_count = 0 /\ r.rental_count = 0) => r.count_ratio = <<0, 1>>
    /\ (r.Airbnb_count > 0 /\ r.rental_count = 0)
         => r.count_ratio = <<-r.Airbnb_count, 1>>
    /\ (r.Airbnb_count = 0 /\ r.rental_count > 0)
         => r.count_ratio = <<r.rental_count, 1>>
    /\ (r.Airbnb_price = 0 /\ r.rental_price_average = 0) => r.price_ratio = <<0, 1>>
    /\ (r.Airbnb_price > 0 /\ r.rental_price_average = 0)
         => r.price_ratio = Frac(-r.Airbnb_price, 2)
    /\ (r.Airbnb_price = 0 /\ r.rental_price_average > 0)
         => r.price_ratio = Frac(r.rental_price_average, 2)

C4_Witness ==
  \E r \in RatioRows :
    /\ r.Airbnb_count > 0 /\ r.rental_count = 0
    /\ r.Airbnb_price = 0 /\ r.rental_price_average = 99
    /\ r.price_ratio = <<99, 2>>

\* C5: for non-negative values the sign of the ratio names the larger side:
\* negative iff the listing value is larger, positive iff the rental value is
\* larger, zero iff the two are equal.
C5_SignNamesLargerSide ==
  \A r \in RatioRows :
    /\ (r.count_ratio[1] < 0) <=> (r.Airbnb_count > r.rental_count)
    /\ (r.count_ratio[1] > 0) <=> (r.Airbnb_count < r.rental_count)
    /\ (r.count_ratio[1] = 0) <=> (r.Airbnb_count = r.rental_count)
    /\ (r.price_ratio[1] < 0) <=> (r.Airbnb_price > r.rental_price_average)
    /\ (r.price_ratio[1] > 0) <=> (r.Airbnb_price < r.rental_price_average)
    /\ (r.price_ratio[1] = 0) <=> (r.Airbnb_price = r.rental_price_average)

C5_Witness ==
  \E r \in RatioRows :
    /\ 0 < r.rental_count /\ r.rental_count < r.Airbnb_count
    /\ r.count_ratio[1] < 0
    /\ r.Airbnb_price = r.rental_price_average /\ r.Airbnb_price > 0
    /\ r.price_ratio = <<0, 1>>

(***************************************************************************)
(* Claims on the weighted-median bucket selector (specification SpecSelect) *)
(***************************************************************************)
\* the sum of the first n counts of a row
RECURSIVE Cumulative(_, _)
Cumulative(r, n) == IF n = 0 THEN 0 ELSE r[n] + Cumulative(r, n - 1)

\* C6: for a row of non-negative counts with a positive total, the column
\* selected is the first one whose cumulative count reaches or exceeds half the
\* total (a cumulative count equal to the half selects that column).
C6_FirstBucketReachingHalf ==
  (pc = "next_row" /\ RowSum(row) > 0) =>
    \E k \in 1..Len(row) :
      /\ new_row = <<k - 1>>
      /\ 2 * Cumulative(row, k) >= RowSum(row)
      /\ \A j \in 1..(k - 1) : 2 * Cumulative(row, j) < RowSum(row)

\* a tie: the first column holds exactly half of the weight
C6_Witness ==
  /\ pc = "next_row"
  /\ row[1] = 1 /\ row[2] = 0 /\ row[3] = 1 /\ RowSum(row) = 2
  /\ new_row = <<0>>

\* C13: for every row of 8 non-negative counts the loop makes at most 8
\* iterations (at i = 8 its condition is false), never reads row[i] past the
\* last column, and with a positive total the selected position i - 1 is in 0..7.
C13_LoopStaysWithinBuckets ==
  /\ pc # "IndexError"
  /\ i \in 0..BUCKETS_PER_CATEGORY
  /\ (pc = "while" /\ i = Len(row)) => ~LoopCondition(cumulative_sum, median_position)
  /\ (pc = "next_row" /\ RowSum(row) > 0) =>
       /\ new_row = <<i - 1>>
       /\ i - 1 \in 0..(BUCKETS_PER_CATEGORY - 1)

\* all the weight in the last column: the loop runs its 8 iterations
C13_Witness ==
  /\ pc = "next_row"
  /\ i = BUCKETS_PER_CATEGORY
  /\ RowSum(row) > 0 /\ row[BUCKETS_PER_CATEGORY] = RowSum(row)
  /\ new_row = <<BUCKETS_PER_CATEGORY - 1>>

(***************************************************************************)
(* Claims on the pipeline (specification Spec).                            *)
(***************************************************************************)
Stages == <<"airbnb_import", "rental_count", "airbnb_count", "assign_rental_price",
            "fill_rental_price", "airbnb_price", "df_aggregate", "add_ratios", "maps">>

\* the call of main() named stage has returned
Returned(stage) ==
  \E k, j \in 1..Len(Stages) : Stages[k] = stage /\ Stages[j] = pc /\ k < j

KnownAreas == {rental_df[k].area : k \in 1..Len(rental_df)}
CanonicalBedrooms == {BEDROOMS_ORDER[k] : k \in 1..Len(BEDROOMS_ORDER)}

RowsOfKey(df, area, bedroom) ==
  {k \in 1..Len(df) : df[k].SA22018__1 = area /\ df[k].bedrooms = bedroom}

\* one row per pair of a known area and a canonical category, and no other row
CoversDomain(df) ==
  /\ Len(df) = Cardinality(KnownAreas) * Cardinality(CanonicalBedrooms)
  /\ \A area \in KnownAreas : \A bedroom \in CanonicalBedrooms :
       Cardinality(RowsOfKey(df, area, bedroom)) = 1

\* C1: each completed table (airbnb_count, airbnb_price, fill_rental_price)
\* holds exactly one row per (area, bedroom category) of all known areas x the
\* nine canonical categories, whatever the partial input.
C1_CompletedTablesCoverDomain ==
  /\ Returned("airbnb_count") => CoversDomain(city_airbnb_count)
  /\ Returned("fill_rental_price") => CoversDomain(city_rental_price)
  /\ Returned("airbnb_price") => CoversDomain(city_airbnb_price)

\* C7: a key whose bucket counts are all zero gets no selection, nothing
\* raises, and the table of fill_rental_price holds the key with the label "0",
\* the ordinal score 0 and the average estimate 0, for any input.
C7_ZeroWeightKeysGetNeutralRow ==
  /\ pc \notin {"IndexError", "KeyError"}
  /\ \A k \in 1..Len(rental_df) : \A c \in 1..Len(CATEGORIES) :
       RowSum(rental_df[k].counts[c]) = 0 =>
         LET area == rental_df[k].area
             bedroom == BEDROOMS_ORDER[c]
         IN  /\ Returned("assign_rental_price") =>
                  RowsOfKey(incomplete_rental_price, area, bedroom) = {}
             /\ Returned("fill_rental_price") =>
                  \E n \in RowsOfKey(city_rental_price, area, bedroom) :
                    /\ city_rental_price[n].price_str = "0"
                    /\ city_rental_price[n].price_basic = 0
                    /\ city_rental_price[n].price_average = 0

\* the listings of the csv that airbnb_import keeps for an area
ListingsIn(area) ==
  {k \in 1..Len(airbnb_file) :
     /\ airbnb_file[k].room_type = "Entire home/apt"
     /\ airbnb_file[k].location = area}

RECURSIVE SumOver(_, _)
SumOver(df, ks) ==
  IF ks = {} THEN 0
  ELSE LET k == CHOOSE n \in ks : TRUE
       IN  df[k].size + SumOver(df, ks \ {k})

\* C8: in the table of airbnb_count the "total" row of every area holds the sum
\* of the counts of the area's rows "1" .. "8 or more"; an area without a
\* listing has the total 0.
C8_TotalIsSumOfCategories ==
  Returned("airbnb_count") =>
    \A area \in KnownAreas :
      \A t \in RowsOfKey(city_airbnb_count, area, "total") :
        /\ city_airbnb_count[t].size =
             SumOver(city_airbnb_count,
                     {k \in 1..Len(city_airbnb_count) :
                        /\ city_airbnb_count[k].SA22018__1 = area
                        /\ city_airbnb_count[k].bedrooms \in CanonicalBedrooms \ {"total"}})
        /\ ListingsIn(area) = {} => city_airbnb_count[t].size = 0

\* C9: every row of the table of df_aggregate carries, for its key, the listing
\* count, the rental price label, score and estimate, and the listing median
\* price that the three input tables hold for that same key.
C9_AggregateRowsJoinOnKey ==
  Returned("df_aggregate") =>
    \A k \in 1..Len(aggregate_df) :
      LET r == aggregate_df[k]
      IN  /\ \E n \in RowsOfKey(city_airbnb_count, r.SA2, r.Bedrooms) :
               city_airbnb_count[n].size = r.Airbnb_count
          /\ \E n \in RowsOfKey(city_rental_price, r.SA2, r.Bedrooms) :
               /\ city_rental_price[n].price_str = r.rental_price
               /\ city_rental_price[n].price_basic = r.rental_price_basic
               /\ city_rental_price[n].price_average = r.rental_price_average
          /\ \E n \in RowsOfKey(city_airbnb_price, r.SA2, r.Bedrooms) :
               city_airbnb_price[n].price = r.Airbnb_price

\* the SA2s of the city
CityAreas == {city_sa2[k] : k \in 1..Len(city_sa2)}

\* C10: airbnb_import gives a listing with more than 7 bedrooms the category
\* "8 or more", a listing without a bedroom value the category "1", and a
\* listing with n bedrooms, n in 1..7, the category with the label n.
C10_BedroomCategories ==
  Returned("airbnb_import") =>
    \A k \in 1..Len(airbnb_file) :
      (airbnb_file[k].room_type = "Entire home/apt"
        /\ airbnb_file[k].location \in CityAreas) =>
        LET b == airbnb_file[k].bedrooms
            rows == {n \in 1..Len(city_airbnb_df) : city_airbnb_df[n].index_right = k}
        IN  /\ Cardinality(rows) = 1
            /\ \A n \in rows :
                 /\ city_airbnb_df[n].SA22018__1 = airbnb_file[k].location
                 /\ (b # NaN /\ b > 7) => city_airbnb_df[n].bedrooms = "8 or more"
                 /\ b = NaN => city_airbnb_df[n].bedrooms = "1"
                 /\ b \in 1..7 => city_airbnb_df[n].bedrooms = BEDROOMS_ORDER[b]

C10_Witness ==
  /\ Returned("airbnb_import")
  /\ \E k, j \in 1..Len(airbnb_file) : \E n, m \in 1..Len(city_airbnb_df) :
       /\ airbnb_file[k].bedrooms = NaN /\ airbnb_file[j].bedrooms = 8
       /\ city_airbnb_df[n].index_right = k /\ city_airbnb_df[n].bedrooms = "1"
       /\ city_airbnb_df[m].index_right = j /\ city_airbnb_df[m].bedrooms = "8 or more"

\* the rows of the joined listings whose key is outside known areas x canonical
\* categories
OutOfDomainRows ==
  {k \in 1..Len(city_airbnb_df) :
     \/ city_airbnb_df[k].SA22018__1 \notin KnownAreas
     \/ city_airbnb_df[k].bedrooms \notin CanonicalBedrooms}

\* C11: when a row derived from the listings has a key outside the canonical
\* area x bedroom domain (category "0" or "nan", or an unknown area), completion
\* fails: neither airbnb_count nor airbnb_price returns a table.
C11_OutOfDomainRowsRejected ==
  OutOfDomainRows # {} =>
    /\ ~Returned("airbnb_count")
    /\ ~Returned("airbnb_price")

\* the position of a category in the canonical enumeration
CanonicalRank(bedroom) ==
  CHOOSE k \in 1..Len(BEDROOMS_ORDER) : BEDROOMS_ORDER[k] = bedroom

\* the key (a1, b1) comes strictly before the key (a2, b2): by area identifier,
\* then by the canonical order of the categories
KeyBefore(a1, b1, a2, b2) ==
  \/ LexRank(a1) < LexRank(a2)
  \/ /\ a1 = a2
     /\ b1 \in CanonicalBedrooms /\ b2 \in CanonicalBedrooms
     /\ CanonicalRank(b1) < CanonicalRank(b2)

InKeyOrder(df) ==
  \A k \in 1..(Len(df) - 1) :
    KeyBefore(df[k].SA22018__1, df[k].bedrooms, df[k + 1].SA22018__1, df[k + 1].bedrooms)

AggregateInKeyOrder(df) ==
  \A k \in 1..(Len(df) - 1) :
    KeyBefore(df[k].SA2, df[k].Bedrooms, df[k + 1].SA2, df[k + 1].Bedrooms)

\* the tables built before the geometry is attached are in key order
TablesInKeyOrder ==
  /\ Returned("rental_count") => InKeyOrder(city_rental_count)
  /\ Returned("airbnb_count") => InKeyOrder(city_airbnb_count)
  /\ Returned("fill_rental_price") => InKeyOrder(city_rental_price)
  /\ Returned("airbnb_price") => InKeyOrder(city_airbnb_price)
  /\ Returned("df_aggregate") => AggregateInKeyOrder(aggregate_df)

\* C12: the rows of every completed table and of the aggregated table, the
\* final table with the geometry included, are sorted by area identifier and,
\* within one area, by the canonical order "1", .., "7", "8 or more", "total".
C12_RowsInCanonicalOrder ==
  /\ TablesInKeyOrder
  /\ pc = "maps" => AggregateInKeyOrder(city_agg_df)

====
